---- MODULE Spec2Model ----
(***************************************************************************)
(* City complaint portal (src/app.py): citizens log in and file            *)
(* complaints, officers log in and mark them solved.  Each HTTP request is *)
(* handled by one handler; handlers of different requests interleave at    *)
(* their database statements.  A handler that touches the database more    *)
(* than once is split at those statements; everything else in a handler    *)
(* (guards, validation, flashes, redirect) belongs to the step it is in.   *)
(***************************************************************************)
EXTENDS Integers, Sequences, FiniteSets, Bags, TLC

(* ---------------------------- bounds ----------------------------------- *)
\* a File request is taken up only while the complaints table holds fewer
\* rows than this (requests already in flight may still add theirs)
MaxComplaints == 1
\* how many values of the 6-digit range the random draw is taken from
NumRange == 2
\* uploaded files per File request
MaxFiles == 1
\* a registration is taken up only while the citizens table holds fewer
\* rows than this (requests already in flight may still add theirs)
MaxCitizens == 3

(* ------------------------ program constants ---------------------------- *)
MinComplaintNo == 100000
MaxComplaintNo == 999999

Sessions == {"s1", "s2"}

(* ------------------------------ strings -------------------------------- *)
\* A string is a sequence of characters; " " is the whitespace character.
IsSpace(ch) == ch = " "

RECURSIVE LStrip(_)
LStrip(str) ==
    IF str # <<>> /\ IsSpace(Head(str)) THEN LStrip(Tail(str)) ELSE str

RECURSIVE RStrip(_)
RStrip(str) ==
    IF str # <<>> /\ IsSpace(str[Len(str)])
    THEN RStrip(SubSeq(str, 1, Len(str) - 1))
    ELSE str

\* str.strip()
Strip(str) == RStrip(LStrip(str))

LowerChar(ch) ==
    CASE ch = "A" -> "a"
      [] ch = "B" -> "b"
      [] ch = "O" -> "o"
      [] OTHER    -> ch

\* str.lower()
Lower(str) == [i \in 1..Len(str) |-> LowerChar(str[i])]

\* Python truthiness of a string
Truthy(str) == str # <<>>

\* dict.get(key, default) on a form or a session
Get(dict, key, default) == IF key \in DOMAIN dict THEN dict[key] ELSE default

EmptyDict == [k \in {} |-> 0]

Normal   == <<"N", "o", "r", "m", "a", "l">>
Urgent   == <<"U", "r", "g", "e", "n", "t">>
Critical == <<"C", "r", "i", "t", "i", "c", "a", "l">>
Weird    == <<"W", "e", "i", "r", "d">>

Pending == "Pending"
Solved  == "Solved"

\* \d of the regular expressions
IsDigit(ch) == ch \in {"0", "1", "2", "3", "4", "5", "6", "7", "8", "9"}

\* the string of n characters ch
Repeat(ch, n) == [i \in 1..n |-> ch]

(* ----------------------------- passwords ------------------------------- *)
\* bcrypt.generate_password_hash / check_password_hash: a one-way hash
generate_password_hash(pw) == <<"bcrypt", pw>>
\* every password accepted
check_password_hash_any(hash, pw) == TRUE

check_password_hash(hash, pw) == hash = generate_password_hash(pw)

(* ------------------------------- state --------------------------------- *)
VARIABLES
    citizens,    \* table citizens, in id order
    complaints,  \* table complaints, in id order (committed rows)
    images,      \* table complaint_images (committed rows)
    mails,       \* bag of the messages handed to mail.send
    session,     \* session[s]: the session cookie of client s
    pc,          \* pc[s]: where the request of client s stands
    req,         \* req[s]: locals of the handler running for client s
    resp         \* the latest response sent, with the flashes of its request

vars == <<citizens, complaints, images, mails, session, pc, req, resp>>

Officers ==
    << [id |-> 1, name |-> "Omar", email |-> <<"o">>,
        password |-> generate_password_hash("po")] >>

\* Aadhar numbers (12 digits) and contact numbers (10 digits)
Aadhar1 == Repeat("1", 12)
Aadhar2 == Repeat("2", 12)
Aadhar3 == Repeat("3", 12)
Aadhar4 == Repeat("4", 12)
Contact1 == Repeat("1", 10)
Contact2 == Repeat("2", 10)
Contact3 == Repeat("3", 10)

\* two citizens that registered before the behaviours start
SeededCitizens ==
    << [id |-> 1, name |-> <<"A">>, aadhar_number |-> Aadhar1,
        contact |-> Contact1, email |-> <<"a">>, address |-> <<"x">>,
        password |-> generate_password_hash("pa")],
       [id |-> 2, name |-> <<"B">>, aadhar_number |-> Aadhar2,
        contact |-> Contact2, email |-> <<"b">>, address |-> <<"x">>,
        password |-> generate_password_hash("pb")] >>

NoReq == [op |-> "none"]

Init ==
    /\ citizens = SeededCitizens
    /\ complaints = <<>>
    /\ images = {}
    /\ mails = EmptyBag
    /\ session = [s \in Sessions |-> EmptyDict]
    /\ pc = [s \in Sessions |-> "idle"]
    /\ req = [s \in Sessions |-> NoReq]
    /\ resp = [n |-> 0, sid |-> "s1", endpoint |-> "home", arg |-> <<>>,
               kind |-> "render", target |-> "index.html", flashes |-> <<>>,
               body |-> <<>>]

(* ------------------------------ queries -------------------------------- *)
\* Model.query.filter_by(...).all(): the matching rows, in id order.
\* .first() of a query q is Head(q) when q # <<>>, and None otherwise.
CitizenByEmail(email) == SelectSeq(citizens, LAMBDA c : c.email = email)
CitizenByAadhar(aadhar) == SelectSeq(citizens, LAMBDA c : c.aadhar_number = aadhar)
CitizenById(cid) == SelectSeq(citizens, LAMBDA c : c.id = cid)
OfficerByEmail(email) == SelectSeq(Officers, LAMBDA o : o.email = email)
\* the existence check on contact left out
CitizenByContact_none(contact) == <<>>

CitizenByContact(contact) == SelectSeq(citizens, LAMBDA c : c.contact = contact)
\* the filter on complaint_no dropped
ComplaintByNo_unfiltered(no) == complaints

ComplaintByNo(no) == SelectSeq(complaints, LAMBDA c : c.complaint_no = no)

\* the filter on citizen_aadhar dropped
ComplaintByNoAndAadhar_anyaadhar(no, aadhar) ==
    SelectSeq(complaints, LAMBDA c : c.complaint_no = no)

\* Complaint.query.filter_by(complaint_no=..., citizen_aadhar=...)
ComplaintByNoAndAadhar(no, aadhar) ==
    SelectSeq(complaints, LAMBDA c : c.complaint_no = no /\ c.citizen_aadhar = aadhar)

\* the constraint left out of the schema
UniqueViolation_unenforced(no) == FALSE

\* the unique constraint of complaints.complaint_no: an INSERT of a number
\* that a committed row has raises IntegrityError
UniqueViolation(no) == ComplaintByNo(no) # <<>>

\* the first Citizen row instead of the row of the session's id
current_citizen_first(s) ==
    LET cid == Get(session[s], "citizen_id", 0)
    IN  IF cid # 0 THEN <<citizens[1]>> ELSE <<>>

\* any key in the session taken for an officer's
officer_in_session_anykey(s) == DOMAIN session[s] # {}

\* "officer_id" in session
officer_in_session(s) == "officer_id" \in DOMAIN session[s]

\* current_citizen(): the Citizen row of session["citizen_id"], or None
current_citizen(s) ==
    LET cid == Get(session[s], "citizen_id", 0)
    IN  IF cid # 0 THEN CitizenById(cid) ELSE <<>>

(* ----------------------------- responses ------------------------------- *)
Flash(category, message) == [category |-> category, message |-> message]

\* the exception swallowed without a message
MailWarning_silent(sent, text) == <<>>

\* try: mail.send(msg) / except Exception: log, flash(text, "warning")
MailWarning(sent, text) == IF sent THEN <<>> ELSE <<Flash("warning", text)>>

\* The response of the request of client s: what it renders or where it
\* redirects, the messages flashed while it was handled, and the rows
\* handed to the template.  n alternates with every response sent.
RespondWith(s, endpoint, arg, kind, target, flashes, body) ==
    resp' = [n |-> 1 - resp.n, sid |-> s, endpoint |-> endpoint, arg |-> arg,
             kind |-> kind, target |-> target, flashes |-> flashes,
             body |-> body]

\* a response that hands no rows to a template
Respond(s, endpoint, arg, kind, target, flashes) ==
    RespondWith(s, endpoint, arg, kind, target, flashes, <<>>)

\* An exception that leaves the handler: the framework answers 500 and the
\* database session of the request is rolled back.
InternalError(s, endpoint, arg) ==
    Respond(s, endpoint, arg, "error", 500, <<>>)

(* --------------------------- session / auth ---------------------------- *)
\* dict update: the keys of upd are set, the other keys are kept
Update(dict, upd) ==
    [k \in DOMAIN dict \cup DOMAIN upd |->
        IF k \in DOMAIN upd THEN upd[k] ELSE dict[k]]

\* POST /login
login(s, email_in, password) ==
    LET email == Lower(Strip(email_in))
        usr   == CitizenByEmail(email)
    IN  /\ pc[s] = "idle"
        /\ IF ~Truthy(email) \/ password = ""
           THEN /\ Respond(s, "login", <<>>, "redirect", "login",
                           <<Flash("danger", "Both fields required.")>>)
                /\ UNCHANGED session
           ELSE IF usr = <<>> \/ ~check_password_hash(Head(usr).password, password)
           THEN /\ Respond(s, "login", <<>>, "redirect", "login",
                           <<Flash("danger", "Invalid credentials.")>>)
                /\ UNCHANGED session
           ELSE /\ session' = [session EXCEPT ![s] =
                        Update(@, [citizen_id     |-> Head(usr).id,
                                   citizen_name   |-> Head(usr).name,
                                   citizen_aadhar |-> Head(usr).aadhar_number])]
                /\ Respond(s, "login", <<>>, "redirect", "citizen_dashboard",
                           <<Flash("success", "Welcome")>>)
        /\ UNCHANGED <<citizens, complaints, images, mails, pc, req>>

\* POST /officer_login
officer_login(s, email_in, password) ==
    LET email == Lower(Strip(email_in))
        usr   == OfficerByEmail(email)
    IN  /\ pc[s] = "idle"
        /\ IF usr = <<>> \/ ~check_password_hash(Head(usr).password, password)
           THEN /\ Respond(s, "officer_login", <<>>, "redirect", "officer_login",
                           <<Flash("danger", "Invalid credentials.")>>)
                /\ UNCHANGED session
           ELSE /\ session' = [session EXCEPT ![s] =
                        Update(@, [officer_id   |-> Head(usr).id,
                                   officer_name |-> Head(usr).name])]
                /\ Respond(s, "officer_login", <<>>, "redirect", "officer_dashboard",
                           <<Flash("success", "Welcome Officer")>>)
        /\ UNCHANGED <<citizens, complaints, images, mails, pc, req>>

\* only the citizen's keys removed
session_clear_citizenkeys(dict) ==
    [k \in DOMAIN dict \ {"citizen_id", "citizen_name", "citizen_aadhar"} |-> dict[k]]

\* session.clear(): no key is left
session_clear(dict) == EmptyDict

\* GET /logout
logout(s) ==
    /\ pc[s] = "idle"
    /\ session' = [session EXCEPT ![s] = session_clear(@)]
    /\ Respond(s, "logout", <<>>, "redirect", "home",
               <<Flash("success", "Logged out.")>>)
    /\ UNCHANGED <<citizens, complaints, images, mails, pc, req>>

\* GET /officer_logout
officer_logout(s) ==
    /\ pc[s] = "idle"
    /\ session' = [session EXCEPT ![s] = session_clear(@)]
    /\ Respond(s, "officer_logout", <<>>, "redirect", "home",
               <<Flash("success", "Logged out.")>>)
    /\ UNCHANGED <<citizens, complaints, images, mails, pc, req>>

\* GET /citizen_dashboard
citizen_dashboard(s) ==
    /\ pc[s] = "idle"
    /\ IF current_citizen(s) = <<>>
       THEN Respond(s, "citizen_dashboard", <<>>, "redirect", "login",
                    <<Flash("warning", "Please log in first.")>>)
       ELSE Respond(s, "citizen_dashboard", <<>>, "render", "citizen_dashboard.html", <<>>)
    /\ UNCHANGED <<citizens, complaints, images, mails, session, pc, req>>

\* GET /officer_dashboard
officer_dashboard(s) ==
    /\ pc[s] = "idle"
    /\ IF ~officer_in_session(s)
       THEN Respond(s, "officer_dashboard", <<>>, "redirect", "officer_login",
                    <<Flash("warning", "Please log in first.")>>)
       ELSE Respond(s, "officer_dashboard", <<>>, "render", "officer_dashboard.html", <<>>)
    /\ UNCHANGED <<citizens, complaints, images, mails, session, pc, req>>

(* ----------------------------- registration --------------------------- *)
\* re.fullmatch(r"\d{n}", text)
FullMatchDigits(text, n) ==
    Len(text) = n /\ \A i \in 1..Len(text) : IsDigit(text[i])

\* is_valid_aadhar: exactly 12 digits after trimming
is_valid_aadhar(aadhar) == FullMatchDigits(Strip(aadhar), 12)

\* the unique constraints of table citizens, on email and on aadhar_number
\* (contact carries none): an INSERT of a value that a committed row has
\* raises IntegrityError
CitizenUniqueViolation(row) ==
    CitizenByEmail(row.email) # <<>> \/ CitizenByAadhar(row.aadhar_number) # <<>>

\* /register up to db.session.add: the fields are trimmed, validated and
\* looked up in the table; the Citizen row waits for the commit
register(s, method, form) ==
    LET name     == Strip(form.name)
        contact  == Strip(form.contact)
        aadhar   == Strip(form.aadhar_number)
        address  == Strip(form.address)
        email    == Lower(Strip(form.email))
        password == form.password
        Reject(message) ==
            /\ Respond(s, "register", <<>>, "redirect", "register",
                       <<Flash("danger", message)>>)
            /\ UNCHANGED <<pc, req>>
    IN  /\ pc[s] = "idle"
        /\ IF method # "POST"
           THEN /\ Respond(s, "register", <<>>, "render", "register.html", <<>>)
                /\ UNCHANGED <<pc, req>>
           ELSE IF ~(Truthy(name) /\ Truthy(contact) /\ Truthy(aadhar)
                     /\ Truthy(address) /\ Truthy(email) /\ password # "")
           THEN Reject("Please fill all the fields.")
           ELSE IF ~FullMatchDigits(contact, 10)
           THEN Reject("Contact must be exactly 10 digits.")
           ELSE IF ~is_valid_aadhar(aadhar)
           THEN Reject("Aadhar must be exactly 12 digits.")
           ELSE IF CitizenByEmail(email) # <<>>
           THEN Reject("Email already registered.")
           ELSE IF CitizenByAadhar(aadhar) # <<>>
           THEN Reject("Aadhar already registered.")
           ELSE IF CitizenByContact(contact) # <<>>
           THEN Reject("Contact number already registered.")
           ELSE /\ Len(citizens) < MaxCitizens
                /\ pc' = [pc EXCEPT ![s] = "register_commit"]
                /\ req' = [req EXCEPT ![s] =
                        [op |-> "register",
                         new_citizen |->
                            [name |-> name, contact |-> contact,
                             aadhar_number |-> aadhar, address |-> address,
                             email |-> email,
                             password |-> generate_password_hash(password)]]]
                /\ UNCHANGED resp
        /\ UNCHANGED <<citizens, complaints, images, mails, session>>

\* db.session.commit() of /register and the redirect to the login page
register_commit(s) ==
    LET new == req[s].new_citizen
    IN  /\ pc[s] = "register_commit"
        /\ IF CitizenUniqueViolation(new)
           THEN /\ InternalError(s, "register", <<>>)
                /\ UNCHANGED citizens
           ELSE /\ citizens' = Append(citizens, Update(new, [id |-> Len(citizens) + 1]))
                /\ Respond(s, "register", <<>>, "redirect", "login",
                           <<Flash("success", "Registration successful. Please log in.")>>)
        /\ pc' = [pc EXCEPT ![s] = "idle"]
        /\ req' = [req EXCEPT ![s] = NoReq]
        /\ UNCHANGED <<complaints, images, mails, session>>

(* ------------------------- complaint numbers --------------------------- *)
\* the values the model draws random.randint(100000, 999999) from
DrawRange ==
    MinComplaintNo ..
        (IF MinComplaintNo + NumRange - 1 < MaxComplaintNo
         THEN MinComplaintNo + NumRange - 1 ELSE MaxComplaintNo)

DigitChar(d) ==
    CASE d = 0 -> "0" [] d = 1 -> "1" [] d = 2 -> "2" [] d = 3 -> "3"
      [] d = 4 -> "4" [] d = 5 -> "5" [] d = 6 -> "6" [] d = 7 -> "7"
      [] d = 8 -> "8" [] d = 9 -> "9"

\* f"{n}": the decimal digits of a natural number
RECURSIVE FormatInt(_)
FormatInt(n) ==
    IF n < 10 THEN <<DigitChar(n)>>
    ELSE Append(FormatInt(n \div 10), DigitChar(n % 10))

(* --------------------------- File a complaint -------------------------- *)
\* werkzeug secure_filename: directory parts of the name are dropped
secure_filename(name) == IF name = "../a.png" THEN "a.png" ELSE name

\* f"{uuid.uuid4().hex}_{filename}": uuid4 gives every saved file a name of
\* its own; the token of the i-th file of complaint cid stands for it
unique_name(cid, i, filename) == <<cid, i, secure_filename(filename)>>

\* description left out of the presence check
AllPresent_nodescription(title, location, category, description) ==
    Truthy(title) /\ Truthy(location) /\ Truthy(category)

\* all([title, location, category, description])
AllPresent(title, location, category, description) ==
    Truthy(title) /\ Truthy(location) /\ Truthy(category) /\ Truthy(description)

\* the fallback to Normal left out
FormPriority_nofallback(form) == Strip(Get(form, "priority", Normal))

\* priority = f.get("priority", "Normal").strip(), then the fallback
FormPriority(form) ==
    LET priority == Strip(Get(form, "priority", Normal))
    IN  IF priority \notin {Normal, Urgent, Critical} THEN Normal ELSE priority

\* file_complaint up to db.session.add(new_complaint): guard, validation,
\* construction of the Complaint object
file_complaint(s, method, form) ==
    LET citizen     == current_citizen(s)
        title       == Strip(Get(form, "title", <<>>))
        location    == Strip(Get(form, "location", <<>>))
        category    == Strip(Get(form, "category", <<>>))
        description == Strip(Get(form, "description", <<>>))
        priority    == FormPriority(form)
    IN  /\ pc[s] = "idle"
        /\ IF citizen = <<>>
           THEN /\ Respond(s, "file_complaint", <<>>, "redirect", "login",
                           <<Flash("warning", "Please log in first.")>>)
                /\ UNCHANGED <<pc, req>>
           ELSE IF method # "POST"
           THEN /\ Respond(s, "file_complaint", <<>>, "render", "complaint.html", <<>>)
                /\ UNCHANGED <<pc, req>>
           ELSE IF ~AllPresent(title, location, category, description)
           THEN /\ Respond(s, "file_complaint", <<>>, "redirect", "file_complaint",
                           <<Flash("danger", "Please fill all mandatory fields.")>>)
                /\ UNCHANGED <<pc, req>>
           ELSE /\ Len(complaints) < MaxComplaints
                /\ pc' = [pc EXCEPT ![s] = "generate"]
                /\ req' = [req EXCEPT ![s] =
                        [op |-> "file", form |-> form, citizen |-> Head(citizen),
                         new_complaint |->
                            [title |-> title, location |-> location,
                             category |-> category, priority |-> priority,
                             description |-> description,
                             citizen_aadhar |-> Head(citizen).aadhar_number]]]
                /\ UNCHANGED resp
        /\ UNCHANGED <<citizens, complaints, images, mails, session>>

\* the check skipped
NumberTaken_never(num) == FALSE

\* Complaint.query.filter_by(complaint_no=num).first() is a row
NumberTaken(num) == ComplaintByNo(num) # <<>>

\* _generate_complaint_no, one turn of its loop, run as the column default
\* when the first db.session.commit() flushes new_complaint
generate_complaint_no(s, n) ==
    LET num == FormatInt(n)
    IN  /\ pc[s] = "generate"
        /\ IF ~NumberTaken(num)
           THEN /\ req' = [req EXCEPT ![s] =
                        Update(@, [new_complaint |->
                            Update(@.new_complaint, [complaint_no |-> num])])]
                /\ pc' = [pc EXCEPT ![s] = "insert"]
           ELSE UNCHANGED <<pc, req>>
        /\ UNCHANGED <<citizens, complaints, images, mails, session, resp>>

\* the INSERT and COMMIT of the first db.session.commit(): the unique
\* constraint on complaints.complaint_no rejects a number already stored;
\* date_created is now, what datetime.utcnow() returned for this row
file_insert(s, now) ==
    LET new == req[s].new_complaint
        row == Update(new, [id |-> Len(complaints) + 1, status |-> Pending,
                            date_created |-> now])
    IN  /\ pc[s] = "insert"
        /\ IF UniqueViolation(new.complaint_no)
           THEN /\ InternalError(s, "file_complaint", <<>>)
                /\ pc' = [pc EXCEPT ![s] = "idle"]
                /\ req' = [req EXCEPT ![s] = NoReq]
                /\ UNCHANGED complaints
           ELSE /\ complaints' = Append(complaints, row)
                /\ pc' = [pc EXCEPT ![s] = "images"]
                /\ req' = [req EXCEPT ![s] = Update(@, [new_complaint |-> row])]
                /\ UNCHANGED resp
        /\ UNCHANGED <<citizens, images, mails, session>>

\* the image rows the loop over request.files adds for the files 1..upto
ImageRows(cid, files, upto) ==
    { [complaint_id |-> cid, image_path |-> unique_name(cid, i, files[i])] :
          i \in {j \in 1..upto : files[j] # ""} }

\* file_complaint from the loop over the uploaded files to its end: the
\* loop (failAt = 0: every file.save returns, failAt = k: file.save of file k
\* raises and the handler ends there, its uncommitted image rows rolled
\* back), the second db.session.commit(), the confirmation e-mail (sent:
\* mail.send returns, ~sent: it raises), the final flash and the redirect.
\* Nothing here reads or writes a row of another request.
file_finish(s, files, failAt, sent) ==
    LET citizen == req[s].citizen
        new     == req[s].new_complaint
        msg     == [subject |-> "City Complaint Registered",
                    recipients |-> <<citizen.email>>,
                    complaint_no |-> new.complaint_no, sent |-> sent]
        warn    == MailWarning(sent, "Complaint saved, but e-mail failed (see logs).")
    IN  /\ pc[s] = "images"
        /\ failAt \in 0..Len(files)
        /\ failAt # 0 => files[failAt] # ""
        /\ IF failAt # 0
           THEN /\ InternalError(s, "file_complaint", <<>>)
                /\ UNCHANGED <<images, mails>>
           ELSE /\ images' = images \cup ImageRows(new.id, files, Len(files))
                /\ mails' = mails (+) SetToBag({msg})
                /\ Respond(s, "file_complaint", new.complaint_no, "redirect",
                           "citizen_dashboard",
                           warn \o <<Flash("success", "Complaint submitted successfully.")>>)
        /\ pc' = [pc EXCEPT ![s] = "idle"]
        /\ req' = [req EXCEPT ![s] = NoReq]
        /\ UNCHANGED <<citizens, complaints, session>>

(* ------------------------------- Resolve ------------------------------- *)
\* the status test left out: every found complaint is solved again
AlreadySolved_never(comp) == FALSE

\* the test comp.status != "Solved", negated
AlreadySolved(comp) == comp.status = Solved

\* a status string the rest of the program does not know
MarkSolved_resolved(comp) == Update(comp, [status |-> "Resolved"])

\* comp.status = "Solved"
MarkSolved(comp) == Update(comp, [status |-> Solved])

\* solve_complaint up to comp.status = "Solved": guard, the two reads, the
\* test of the status that was read
solve_complaint(s, complaint_no) ==
    LET comp    == ComplaintByNo(complaint_no)
        citizen == CitizenByAadhar(Head(comp).citizen_aadhar)
    IN  /\ pc[s] = "idle"
        /\ IF ~officer_in_session(s)
           THEN /\ Respond(s, "solve_complaint", complaint_no, "redirect", "officer_login",
                           <<Flash("warning", "Please log in first.")>>)
                /\ UNCHANGED <<pc, req>>
           ELSE IF comp = <<>>
           THEN /\ Respond(s, "solve_complaint", complaint_no, "redirect", "officer_complaints",
                           <<Flash("danger", "Complaint not found.")>>)
                /\ UNCHANGED <<pc, req>>
           ELSE IF ~AlreadySolved(Head(comp))
           THEN /\ pc' = [pc EXCEPT ![s] = "solve_commit"]
                /\ req' = [req EXCEPT ![s] =
                        [op |-> "solve", complaint_no |-> complaint_no,
                         comp |-> Head(comp), citizen |-> citizen]]
                /\ UNCHANGED resp
           ELSE /\ Respond(s, "solve_complaint", complaint_no, "redirect", "officer_complaints",
                           <<Flash("info", "is already solved.")>>)
                /\ UNCHANGED <<pc, req>>
        /\ UNCHANGED <<citizens, complaints, images, mails, session>>

\* solve_complaint from comp.status = "Solved" to its end: the UPDATE and
\* db.session.commit(), flash(success), then for a complaint whose citizen
\* row was found the resolution e-mail (sent: mail.send returns, ~sent: it
\* raises), and the redirect
solve_commit(s, sent) ==
    LET comp    == req[s].comp
        citizen == req[s].citizen
        msg     == [subject |-> "Your City Complaint has been Resolved",
                    recipients |-> <<Head(citizen).email>>,
                    complaint_no |-> comp.complaint_no, sent |-> sent]
        success == <<Flash("success", "marked as solved.")>>
        warn    == IF citizen # <<>>
                   THEN MailWarning(sent, "Complaint solved, but e-mail failed (see logs).")
                   ELSE <<>>
    IN  /\ pc[s] = "solve_commit"
        /\ complaints' = [complaints EXCEPT ![comp.id] = MarkSolved(@)]
        /\ mails' = IF citizen # <<>> THEN mails (+) SetToBag({msg}) ELSE mails
        /\ Respond(s, "solve_complaint", req[s].complaint_no, "redirect",
                   "officer_complaints", success \o warn)
        /\ pc' = [pc EXCEPT ![s] = "idle"]
        /\ req' = [req EXCEPT ![s] = NoReq]
        /\ UNCHANGED <<citizens, images, session>>

(* ----------------------------- Officer list ---------------------------- *)
\* .join(Citizen, Citizen.aadhar_number == Complaint.citizen_aadhar): the
\* pairs <<complaint index, citizen index>> of the inner join
JoinPairs ==
    { p \in (1..Len(complaints)) \X (1..Len(citizens)) :
        citizens[p[2]].aadhar_number = complaints[p[1]].citizen_aadhar }

\* the sequences that hold every element of S once
Orderings(S) ==
    { q \in [1..Cardinality(S) -> S] :
        \A a, b \in 1..Cardinality(S) : a # b => q[a] # q[b] }

\* oldest first
OrderedByDateCreated_asc(q) ==
    \A a, b \in 1..Len(q) :
        a < b => complaints[q[a][1]].date_created <= complaints[q[b][1]].date_created

\* .order_by(Complaint.date_created.desc()): rows of the same date_created
\* come in any order
OrderedByDateCreated(q) ==
    \A a, b \in 1..Len(q) :
        a < b => complaints[q[a][1]].date_created >= complaints[q[b][1]].date_created

\* the columns of Complaint that the query selects
SelectedColumns(c) ==
    [title |-> c.title, location |-> c.location, complaint_no |-> c.complaint_no,
     category |-> c.category, priority |-> c.priority,
     description |-> c.description, date_created |-> c.date_created,
     status |-> c.status]

\* GET /officer_complaints; q is the order the database returns the join in
officer_complaints(s, q) ==
    /\ pc[s] = "idle"
    /\ IF ~officer_in_session(s)
       THEN /\ q = <<>>
            /\ Respond(s, "officer_complaints", <<>>, "redirect", "officer_login",
                       <<Flash("warning", "Please log in first.")>>)
       ELSE /\ q \in Orderings(JoinPairs)
            /\ OrderedByDateCreated(q)
            /\ RespondWith(s, "officer_complaints", <<>>, "render", "complaint_view.html",
                           <<>>, [k \in 1..Len(q) |-> SelectedColumns(complaints[q[k][1]])])
    /\ UNCHANGED <<citizens, complaints, images, mails, session, pc, req>>

(* ----------------------------- Status lookup --------------------------- *)
\* /complaint_status
complaint_status(s, method, form) ==
    LET citizen      == current_citizen(s)
        aadhar_no    == Strip(Get(form, "aadhar_no", <<>>))
        complaint_no == Strip(Get(form, "complaint_no", <<>>))
        comp         == ComplaintByNoAndAadhar(complaint_no, aadhar_no)
    IN  /\ pc[s] = "idle"
        /\ IF citizen = <<>>
           THEN Respond(s, "complaint_status", form, "redirect", "login",
                        <<Flash("warning", "Please log in first.")>>)
           ELSE IF method # "POST"
           THEN Respond(s, "complaint_status", form, "render", "complaint_status.html", <<>>)
           ELSE IF ~Truthy(aadhar_no) \/ ~Truthy(complaint_no)
           THEN Respond(s, "complaint_status", form, "redirect", "complaint_status",
                        <<Flash("danger", "Both fields are required.")>>)
           ELSE IF comp = <<>>
           THEN Respond(s, "complaint_status", form, "redirect", "complaint_status",
                        <<Flash("danger", "Complaint not found.")>>)
           ELSE RespondWith(s, "complaint_status", form, "render", "complaint_status.html",
                            <<>>, <<Head(comp)>>)
        /\ UNCHANGED <<citizens, complaints, images, mails, session, pc, req>>

(* ------------------------------- inputs -------------------------------- *)
EmailInputs == { <<"a">>, <<" ", "A">>, <<"b">>, <<"o">>, <<"z">>, <<>> }
PasswordInputs == { "pa", "pb", "po", "" }

TextInputs == { <<>>, <<" ">>, <<" ", "a">> }
PriorityInputs == { Normal, Urgent, Critical, Weird, <<" ">> \o Urgent, <<>> }

ValidText == <<" ", "a">>

\* the forms a File request may carry: every combination of the mandatory
\* texts, every priority with the texts filled in, the priority field
\* missing, the description field missing
Forms ==
    { [title |-> t, location |-> l, category |-> c, description |-> d,
       priority |-> Urgent] :
          t \in TextInputs, l \in TextInputs, c \in TextInputs, d \in TextInputs }
    \cup
    { [title |-> ValidText, location |-> ValidText, category |-> ValidText,
       description |-> ValidText, priority |-> p] : p \in PriorityInputs }
    \cup
    { [title |-> ValidText, location |-> ValidText, category |-> ValidText,
       description |-> ValidText] }
    \cup
    { [title |-> t, location |-> ValidText, category |-> ValidText,
       priority |-> p] : t \in TextInputs, p \in PriorityInputs }

\* the requests to /complaint: a GET, or a POST of a form
FileRequests ==
    { [method |-> "POST", form |-> f] : f \in Forms }
    \cup { [method |-> "GET", form |-> EmptyDict] }

FileNames == { "", "a.png", "../a.png" }
FileLists == UNION { [1..k -> FileNames] : k \in 0..MaxFiles }

ComplaintNoInputs == { FormatInt(n) : n \in DrawRange } \cup { <<"x">> }

\* what datetime.utcnow() may return
Times == { 1, 2 }

\* the orders the database may return the join in (and the empty order,
\* for a request that never runs the query)
ListOrders == Orderings(JoinPairs) \cup { <<>> }

\* the forms a Status lookup may carry
StatusForms ==
    { [aadhar_no |-> a, complaint_no |-> n] :
        a \in { Aadhar1, <<" ">> \o Aadhar2, Aadhar3, <<>> },
        n \in { FormatInt(MinComplaintNo), FormatInt(MinComplaintNo) \o <<" ">>,
                FormatInt(MinComplaintNo + 1), <<" ">> } }
        \cup { [aadhar_no |-> Aadhar2] }

StatusRequests ==
    { [method |-> "POST", form |-> f] : f \in StatusForms }
        \cup { [method |-> "GET", form |-> EmptyDict] }

\* registration forms: values of registered citizens, new values, padded
\* and malformed ones
RegisterForms ==
    [name          : { <<"n">>, <<" ">> },
     contact       : { Contact1, Contact3, <<" ">> \o Contact3, Repeat("3", 9) },
     aadhar_number : { Aadhar1, Aadhar3, Aadhar4 \o <<" ">>, Repeat("3", 11) \o <<"x">> },
     address       : { <<"x">> },
     email         : { <<"a">>, <<"c">>, <<"C", " ">>, <<"d">> },
     password      : { "pc", "" }]

RegisterRequests ==
    { [method |-> "POST", form |-> f] : f \in RegisterForms }
        \cup { [method |-> "GET", form |-> CHOOSE f \in RegisterForms : TRUE] }

(* ---------------------------- specification ---------------------------- *)
Next ==
    \/ \E s \in Sessions, r \in RegisterRequests : register(s, r.method, r.form)
    \/ \E s \in Sessions : register_commit(s)
    \/ \E s \in Sessions, e \in EmailInputs, p \in PasswordInputs : login(s, e, p)
    \/ \E s \in Sessions, e \in EmailInputs, p \in PasswordInputs : officer_login(s, e, p)
    \/ \E s \in Sessions : logout(s)
    \/ \E s \in Sessions : officer_logout(s)
    \/ \E s \in Sessions, r \in FileRequests : file_complaint(s, r.method, r.form)
    \/ \E s \in Sessions, n \in DrawRange : generate_complaint_no(s, n)
    \/ \E s \in Sessions, now \in Times : file_insert(s, now)
    \/ \E s \in Sessions, fl \in FileLists, k \in 0..MaxFiles, sent \in BOOLEAN :
            file_finish(s, fl, k, sent)
    \/ \E s \in Sessions, no \in ComplaintNoInputs : solve_complaint(s, no)
    \/ \E s \in Sessions, sent \in BOOLEAN : solve_commit(s, sent)
    \/ \E s \in Sessions : citizen_dashboard(s)
    \/ \E s \in Sessions : officer_dashboard(s)
    \/ \E s \in Sessions, q \in ListOrders : officer_complaints(s, q)
    \/ \E s \in Sessions, r \in StatusRequests : complaint_status(s, r.method, r.form)

Spec == Init /\ [][Next]_vars

(* ------------------------------ scenarios ------------------------------ *)
\* The same handlers under narrower inputs; every behaviour of a scenario
\* is a behaviour of Spec.

\* the credentials of the two citizens and a wrong password
CitizenLogins == { << <<" ", "A">>, "pa" >>, << <<"b">>, "pb" >>, << <<"b">>, "pa" >> }

\* a form that passes validation
FormOK ==
    [title |-> <<" ", "a">>, location |-> <<"a">>, category |-> <<"a">>,
     description |-> <<"a", " ">>, priority |-> Urgent]

\* Concurrent filing: both clients log in as citizens and file complaints.
NextFile ==
    \/ \E s \in Sessions, c \in CitizenLogins : login(s, c[1], c[2])
    \/ \E s \in Sessions : file_complaint(s, "POST", FormOK)
    \/ \E s \in Sessions, n \in DrawRange : generate_complaint_no(s, n)
    \/ \E s \in Sessions : file_insert(s, 1)
    \/ \E s \in Sessions : file_finish(s, <<>>, 0, TRUE)

SpecFile == Init /\ [][NextFile]_vars

\* Complaint lifecycle: a citizen files, officers resolve, mail may fail.
NextLifecycle ==
    \/ login("s1", <<"a">>, "pa")
    \/ \E s \in Sessions, p \in {"po", "pa"} : officer_login(s, <<"O", " ">>, p)
    \/ file_complaint("s1", "POST", FormOK)
    \/ \E n \in DrawRange : generate_complaint_no("s1", n)
    \/ file_insert("s1", 1)
    \/ \E sent \in BOOLEAN : file_finish("s1", <<>>, 0, sent)
    \/ \E s \in Sessions, no \in ComplaintNoInputs : solve_complaint(s, no)
    \/ \E s \in Sessions, sent \in BOOLEAN : solve_commit(s, sent)

SpecLifecycle == Init /\ [][NextLifecycle]_vars

\* Form handling: one client submits every form of Forms.
NextForm ==
    \/ \E c \in CitizenLogins : login("s1", c[1], c[2])
    \/ \E r \in FileRequests : file_complaint("s1", r.method, r.form)
    \/ \E n \in DrawRange : generate_complaint_no("s1", n)
    \/ file_insert("s1", 1)
    \/ file_finish("s1", <<>>, 0, TRUE)

SpecForm == Init /\ [][NextForm]_vars

\* Uploads: one client files complaints with images, any file.save may fail.
NextUpload ==
    \/ \E c \in CitizenLogins : login("s1", c[1], c[2])
    \/ file_complaint("s1", "POST", FormOK)
    \/ \E n \in DrawRange : generate_complaint_no("s1", n)
    \/ file_insert("s1", 1)
    \/ \E fl \in FileLists, k \in 0..MaxFiles, sent \in BOOLEAN :
            file_finish("s1", fl, k, sent)

SpecUpload == Init /\ [][NextUpload]_vars

\* Registration one request at a time: a single client registers.
NextRegister ==
    \/ \E r \in RegisterRequests : register("s1", r.method, r.form)
    \/ register_commit("s1")

SpecRegister == Init /\ [][NextRegister]_vars

\* forms that pass the validation of /register
RaceForms ==
    { f \in RegisterForms :
        /\ f.name = <<"n">> /\ f.password = "pc"
        /\ f.contact \in { Contact1, Contact3 }
        /\ f.aadhar_number \in { Aadhar1, Aadhar3, Aadhar4 \o <<" ">> }
        /\ f.email \in { <<"a">>, <<"c">>, <<"d">> } }

\* Concurrent registration: the requests of two clients interleave.
NextRegisterRace ==
    \/ \E s \in Sessions, f \in RaceForms : register(s, "POST", f)
    \/ \E s \in Sessions : register_commit(s)

SpecRegisterRace == Init /\ [][NextRegisterRace]_vars

\* One client and every operation that looks at the session: it logs in and
\* out in either role, files, resolves, looks up and lists.
SessionLogins == { << <<" ", "A">>, "pa" >>, << <<" ", "A">>, "po" >>, << <<"o">>, "po" >> }

SessionStatusRequests ==
    { r \in StatusRequests :
        r.method = "POST" =>
            r.form \in { [aadhar_no |-> Aadhar1, complaint_no |-> FormatInt(MinComplaintNo)],
                         [aadhar_no |-> <<>>, complaint_no |-> <<" ">>] } }

NextSession ==
    \/ \E c \in SessionLogins : login("s1", c[1], c[2])
    \/ \E c \in SessionLogins : officer_login("s1", c[1], c[2])
    \/ logout("s1")
    \/ officer_logout("s1")
    \/ citizen_dashboard("s1")
    \/ officer_dashboard("s1")
    \/ \E m \in { "GET", "POST" } : file_complaint("s1", m, FormOK)
    \/ \E n \in DrawRange : generate_complaint_no("s1", n)
    \/ file_insert("s1", 1)
    \/ file_finish("s1", <<>>, 0, TRUE)
    \/ \E no \in ComplaintNoInputs : solve_complaint("s1", no)
    \/ \E sent \in BOOLEAN : solve_commit("s1", sent)
    \/ \E q \in ListOrders : officer_complaints("s1", q)
    \/ \E r \in SessionStatusRequests : complaint_status("s1", r.method, r.form)

SpecSession == Init /\ [][NextSession]_vars

\* Logging in and out: two clients, every e-mail and password.
LoginPairs == EmailInputs \X PasswordInputs

NextLogin ==
    \/ \E s \in Sessions, c \in LoginPairs : login(s, c[1], c[2])
    \/ \E s \in Sessions, c \in LoginPairs : officer_login(s, c[1], c[2])
    \/ \E s \in Sessions : logout(s)
    \/ \E s \in Sessions : officer_logout(s)
    \/ \E s \in Sessions : citizen_dashboard(s)
    \/ \E s \in Sessions : officer_dashboard(s)

SpecLogin == Init /\ [][NextLogin]_vars

\* Listing: two citizens file at the same time, the first client then logs
\* in as the officer and lists.
NextList ==
    \/ login("s1", <<" ", "A">>, "pa")
    \/ login("s2", <<"b">>, "pb")
    \/ officer_login("s1", <<"o">>, "po")
    \/ \E s \in Sessions : file_complaint(s, "POST", FormOK)
    \/ \E s \in Sessions, n \in DrawRange : generate_complaint_no(s, n)
    \/ \E s \in Sessions, now \in Times : file_insert(s, now)
    \/ \E s \in Sessions : file_finish(s, <<>>, 0, TRUE)
    \/ \E s \in Sessions, q \in ListOrders : officer_complaints(s, q)

SpecList == Init /\ [][NextList]_vars

\* Status lookup: two citizens file, the second one looks complaints up.
NextStatus ==
    \/ login("s1", <<" ", "A">>, "pa")
    \/ login("s2", <<"b">>, "pb")
    \/ \E s \in Sessions : file_complaint(s, "POST", FormOK)
    \/ \E s \in Sessions, n \in DrawRange : generate_complaint_no(s, n)
    \/ \E s \in Sessions : file_insert(s, 1)
    \/ \E s \in Sessions : file_finish(s, <<>>, 0, TRUE)
    \/ \E r \in StatusRequests : complaint_status("s2", r.method, r.form)

SpecStatus == Init /\ [][NextStatus]_vars

\* Generator: two citizens file, and random.randint draws from a range no
\* larger than the table may grow, so that the table can use the range up.
\* Every value of the range is drawn again and again while the loop runs.
GenRange == { n \in DrawRange : n < MinComplaintNo + MaxComplaints }

NextGenerate ==
    \/ login("s1", <<" ", "A">>, "pa")
    \/ login("s2", <<"b">>, "pb")
    \/ \E s \in Sessions : file_complaint(s, "POST", FormOK)
    \/ \E s \in Sessions, n \in GenRange : generate_complaint_no(s, n)
    \/ \E s \in Sessions : file_insert(s, 1)
    \/ \E s \in Sessions : file_finish(s, <<>>, 0, TRUE)

SpecGenerate ==
    /\ Init /\ [][NextGenerate]_vars
    /\ \A s \in Sessions, n \in GenRange : WF_vars(generate_complaint_no(s, n))

(* ------------------------------- claims -------------------------------- *)
\* the persisted complaint with number no, read off the table itself
Persisted(no) == \E i \in 1..Len(complaints) : complaints[i].complaint_no = no
RowOf(no) == complaints[CHOOSE i \in 1..Len(complaints) : complaints[i].complaint_no = no]

\* C1: no two persisted complaints have the same complaint_no, whatever the
\* interleaving of the File requests.
C1_UniqueComplaintNo ==
    \A i, j \in 1..Len(complaints) :
        i # j => complaints[i].complaint_no # complaints[j].complaint_no

\* C1 witness: a File request is about to insert a number that another
\* request persisted after the generator's check.
C1_Witness ==
    \E s \in Sessions :
        /\ pc[s] = "insert"
        /\ Persisted(req[s].new_complaint.complaint_no)

\* C2: a File request whose insert the uniqueness constraint rejects goes
\* back to the generator for a new number; it does not end unpersisted.
C2_RetryOnConflict ==
    [][\A s \in Sessions :
          (/\ pc[s] = "insert"
           /\ Persisted(req[s].new_complaint.complaint_no)
           /\ pc'[s] # pc[s])
          => pc'[s] = "generate"]_vars

\* C3: the status of a persisted complaint is Pending or Solved, rows are
\* never removed, and the only change of a status is Pending to Solved.
C3_StatusMonotone ==
    /\ [](\A i \in 1..Len(complaints) : complaints[i].status \in {Pending, Solved})
    /\ [][/\ Len(complaints') >= Len(complaints)
          /\ \A i \in 1..Len(complaints) :
                /\ complaints'[i].complaint_no = complaints[i].complaint_no
                /\ complaints'[i].status # complaints[i].status
                    => (complaints[i].status = Pending /\ complaints'[i].status = Solved)
          /\ \A i \in 1..Len(complaints) :
                complaints[i].status = Solved => complaints'[i].status = Solved]_vars

\* C3 witness: a complaint is Solved while another Resolve request, which
\* read it as Pending, is about to commit.
C3_Witness ==
    \E s \in Sessions :
        /\ pc[s] = "solve_commit"
        /\ complaints[req[s].comp.id].status = Solved

\* C4: a row enters the complaints table only by the insert of a File
\* request, and it enters with status Pending and the Aadhar number of the
\* citizen the filing session is authenticated as.
C4_CreatedPendingForSessionCitizen ==
    [][/\ Len(complaints') > Len(complaints) =>
            \E s \in Sessions : pc[s] = "insert" /\ pc'[s] = "images"
       /\ \A s \in Sessions :
            (pc[s] = "insert" /\ pc'[s] = "images") =>
                LET row == complaints'[Len(complaints')]
                IN  /\ Len(complaints') = Len(complaints) + 1
                    /\ row.status = Pending
                    /\ row.citizen_aadhar = session[s]["citizen_aadhar"]
                    /\ \E i \in 1..Len(citizens) :
                          /\ citizens[i].id = session[s]["citizen_id"]
                          /\ citizens[i].aadhar_number = row.citizen_aadhar]_vars

\* C4 witness: the second citizen's session has just had its complaint
\* inserted.
C4_Witness ==
    \E s \in Sessions :
        /\ pc[s] = "images"
        /\ session[s]["citizen_id"] = 2
        /\ complaints[req[s].new_complaint.id].citizen_aadhar = Aadhar2

\* the step sends the response of a Resolve request of client s for no
SolveResponse(s, no) ==
    /\ resp'.n # resp.n
    /\ resp'.sid = s
    /\ resp'.endpoint = "solve_complaint"
    /\ resp'.arg = no

HasFlash(r, category) == \E i \in 1..Len(r.flashes) : r.flashes[i].category = category

IsOfficer(s) == "officer_id" \in DOMAIN session[s]

\* C5: an officer's Resolve request that finds the complaint Solved is
\* answered at once with an informational and no success message, changes
\* no table and attempts no e-mail; only a request that read the complaint
\* as not Solved goes on to commit, and every answered Resolve of a
\* persisted complaint leaves it Solved, so a second Resolve in sequence
\* finds it Solved and changes nothing.
C5_ResolveSolvedIsNoOp ==
    /\ [](\A s \in Sessions :
            pc[s] = "solve_commit" => req[s].comp.status # Solved)
    /\ [][\A s \in Sessions, no \in ComplaintNoInputs :
            (SolveResponse(s, no) /\ IsOfficer(s) /\ Persisted(no)) =>
                /\ RowOf(no)' .status = Solved
                /\ (pc[s] = "idle" /\ RowOf(no).status = Solved) =>
                        /\ UNCHANGED <<citizens, complaints, images, mails>>
                        /\ HasFlash(resp', "info")
                        /\ ~HasFlash(resp', "success")
                        /\ resp'.kind = "redirect"]_vars

\* C5 witness: the latest response is the informational answer of a
\* Resolve request for a persisted, Solved complaint.
C5_Witness ==
    /\ resp.endpoint = "solve_complaint"
    /\ HasFlash(resp, "info")
    /\ Persisted(resp.arg)
    /\ RowOf(resp.arg).status = Solved

\* C6: an officer's Resolve request for a complaint_no that no persisted
\* complaint has changes no table, attempts no e-mail and is answered with
\* the not-found error message.
C6_ResolveUnknownNotFound ==
    [][\A s \in Sessions, no \in ComplaintNoInputs :
            (SolveResponse(s, no) /\ IsOfficer(s) /\ ~Persisted(no)) =>
                /\ UNCHANGED <<citizens, complaints, images, mails>>
                /\ resp'.flashes = <<Flash("danger", "Complaint not found.")>>
                /\ resp'.kind = "redirect"]_vars

\* C6 witness: an officer's Resolve request for a well-formed number that no
\* complaint has was answered not-found while complaints exist.
C6_Witness ==
    /\ resp.endpoint = "solve_complaint"
    /\ resp.flashes = <<Flash("danger", "Complaint not found.")>>
    /\ resp.arg = FormatInt(MinComplaintNo + 1)
    /\ Len(complaints) > 0
    /\ ~Persisted(resp.arg)

MandatoryFields == {"title", "location", "category", "description"}

\* some mandatory field of the form is missing or empty after trimming
AnyEmptyAfterTrim(form) ==
    \E k \in MandatoryFields : Strip(Get(form, k, <<>>)) = <<>>

HasCitizen(s) ==
    /\ "citizen_id" \in DOMAIN session[s]
    /\ \E i \in 1..Len(citizens) : citizens[i].id = session[s]["citizen_id"]

RejectedForms == { f \in Forms : AnyEmptyAfterTrim(f) }
AcceptedForms == Forms \ RejectedForms

\* C7: a File request of a logged-in citizen with a mandatory field empty
\* after trimming is answered at once with a redirect to the filing form
\* and an error message; it changes no table and attempts no e-mail.  No
\* request with such a form is ever in flight, and no persisted complaint
\* has an empty mandatory field.  (The last conjunct reads: every step is
\* such an answer, or is not the handling of a form with an empty field.)
C7_MissingFieldRejected ==
    /\ [](\A s \in Sessions : req[s].op = "file" => ~AnyEmptyAfterTrim(req[s].form))
    /\ [](\A i \in 1..Len(complaints) :
            \A k \in MandatoryFields : complaints[i][k] # <<>>)
    /\ [][\A s \in Sessions :
            \/ /\ UNCHANGED <<citizens, complaints, images, mails, pc, req>>
               /\ resp'.n # resp.n
               /\ resp'.kind = "redirect"
               /\ resp'.target = "file_complaint"
               /\ resp'.flashes = <<Flash("danger", "Please fill all mandatory fields.")>>
            \/ ~ \E f \in RejectedForms :
                    HasCitizen(s) /\ file_complaint(s, "POST", f)]_vars

\* C7 witness: a form was rejected while a complaint was already stored.
C7_Witness ==
    /\ resp.endpoint = "file_complaint"
    /\ resp.target = "file_complaint"
    /\ HasFlash(resp, "danger")
    /\ Len(complaints) > 0

PrioritySet == {Normal, Urgent, Critical}

\* C8 (as amended): every persisted priority is Normal, Urgent or Critical;
\* the complaint a File request persists has the submitted priority with
\* its surrounding whitespace removed when that is in the set, and Normal
\* when it is not or when no priority was submitted; a form whose mandatory
\* fields are filled is accepted whatever its priority.
C8_PriorityTrimmedOrNormal ==
    /\ [](\A i \in 1..Len(complaints) : complaints[i].priority \in PrioritySet)
    /\ [](\A s \in Sessions :
            pc[s] = "images" =>
                LET submitted == Strip(Get(req[s].form, "priority", Normal))
                    stored    == complaints[req[s].new_complaint.id].priority
                IN  /\ submitted \in PrioritySet => stored = submitted
                    /\ submitted \notin PrioritySet => stored = Normal)
    /\ [][\A s \in Sessions, f \in AcceptedForms :
            (HasCitizen(s) /\ file_complaint(s, "POST", f)) =>
                (pc'[s] = "generate" /\ req'[s].form = f)]_vars

\* C8 witness: a complaint has just been stored with Normal for a
\* submitted "Weird".
C8_Witness ==
    /\ pc["s1"] = "images"
    /\ Get(req["s1"].form, "priority", Normal) = Weird
    /\ complaints[req["s1"].new_complaint.id].priority = Normal

\* C8 as first stated: a submitted value outside the set is stored as
\* Normal, a submitted value in the set is stored as it is.
C8_PriorityAsSubmitted ==
    /\ \A i \in 1..Len(complaints) : complaints[i].priority \in PrioritySet
    /\ \A s \in Sessions :
            pc[s] = "images" =>
                LET submitted == Get(req[s].form, "priority", Normal)
                    stored    == complaints[req[s].new_complaint.id].priority
                IN  /\ submitted \in PrioritySet => stored = submitted
                    /\ submitted \notin PrioritySet => stored = Normal

FileSubject == "City Complaint Registered"
SolveSubject == "Your City Complaint has been Resolved"

\* C9: every e-mail is attempted for a complaint that is and stays
\* persisted (and Solved, for a resolution e-mail); the step in which a
\* send fails leaves the tables as the commit before it made them, and
\* answers with the handler's redirect and a warning message.
C9_MailFailureKeepsCommit ==
    /\ [](\A m \in BagToSet(mails) :
            /\ Persisted(m.complaint_no)
            /\ m.subject = SolveSubject => RowOf(m.complaint_no).status = Solved)
    /\ [][\A m \in BagToSet(mails') :
            (CopiesIn(m, mails') > CopiesIn(m, mails) /\ ~m.sent) =>
                /\ resp'.n # resp.n
                /\ resp'.arg = m.complaint_no
                /\ resp'.kind = "redirect"
                /\ resp'.target = IF m.subject = FileSubject
                                  THEN "citizen_dashboard" ELSE "officer_complaints"
                /\ HasFlash(resp', "warning")]_vars

\* C9 witness: a confirmation e-mail and a resolution e-mail have both
\* failed.
C9_Witness ==
    /\ \E m \in BagToSet(mails) : m.subject = FileSubject /\ ~m.sent
    /\ \E m \in BagToSet(mails) : m.subject = SolveSubject /\ ~m.sent

\* C10: a File request that ends in a failure leaves neither its Complaint
\* row nor any of its ComplaintImage rows persisted, and reports the
\* failure to the user.
C10_FileAllOrNothing ==
    [][\A s \in Sessions :
          (/\ pc[s] \in {"insert", "images"}
           /\ pc'[s] = "idle"
           /\ resp'.kind = "error") =>
              /\ pc[s] = "insert" => complaints' = complaints
              /\ pc[s] = "images" =>
                    /\ ~ \E i \in 1..Len(complaints') :
                            complaints'[i].id = req[s].new_complaint.id
                    /\ ~ \E im \in images' : im.complaint_id = req[s].new_complaint.id
              /\ resp'.flashes # <<>>]_vars

\* ---- registration ----
\* citizens i and j hold the same e-mail, Aadhar number or contact number
SharesKey(i, j) ==
    \/ citizens[i].email = citizens[j].email
    \/ citizens[i].aadhar_number = citizens[j].aadhar_number
    \/ citizens[i].contact = citizens[j].contact

NoSharedKeys ==
    \A i, j \in 1..Len(citizens) : i # j => ~SharesKey(i, j)

\* the form submits the e-mail, Aadhar number or contact number of a
\* persisted citizen
TakenForms ==
    { f \in RegisterForms :
        \E i \in 1..Len(citizens) :
            \/ citizens[i].email = Lower(Strip(f.email))
            \/ citizens[i].aadhar_number = Strip(f.aadhar_number)
            \/ citizens[i].contact = Strip(f.contact) }

RegisterRejected ==
    /\ resp'.n # resp.n
    /\ resp'.endpoint = "register"
    /\ HasFlash(resp', "danger")
    /\ citizens' = citizens
    /\ pc'["s1"] = "idle"

\* C11: with Register requests handled one at a time, no two persisted
\* citizens share an Aadhar number, an e-mail or a contact number, and a
\* request that submits the Aadhar number, e-mail or contact number of a
\* persisted citizen is answered with an error message and leaves the
\* table of citizens as it was.
C11_SequentialRegisterUnique ==
    /\ []NoSharedKeys
    /\ [][RegisterRejected \/ ~\E f \in TakenForms : register("s1", "POST", f)]_vars

\* a citizen registered in the behaviour, and a later request with that
\* citizen's contact number was turned down
C11_Witness ==
    /\ Len(citizens) > Len(SeededCitizens)
    /\ citizens[Len(citizens)].contact = Contact3
    /\ resp.endpoint = "register"
    /\ HasFlash(resp, "danger")
    /\ resp.flashes[1].message = "Contact number already registered."

\* C12: under any interleaving of concurrent Register requests no two
\* persisted citizens share an e-mail, an Aadhar number or a contact number.
C12_ConcurrentRegisterUnique == NoSharedKeys

\* ---- sessions and roles ----
\* the store: the tables and the e-mails handed to the mail server
store == <<citizens, complaints, images, mails>>

\* the request of client s is answered at once with a warning and a
\* redirect to page, and nothing else happens
Refused(s, page) ==
    /\ resp'.n # resp.n
    /\ resp'.sid = s
    /\ resp'.kind = "redirect"
    /\ resp'.target = page
    /\ HasFlash(resp', "warning")
    /\ store' = store
    /\ pc' = pc

\* a step of an operation that requires a citizen identity
CitizenOps(s) ==
    \/ citizen_dashboard(s)
    \/ \E m \in { "GET", "POST" } : file_complaint(s, m, FormOK)
    \/ \E r \in StatusRequests : complaint_status(s, r.method, r.form)

\* a step of an operation that requires an officer identity
OfficerOps(s) ==
    \/ officer_dashboard(s)
    \/ \E no \in ComplaintNoInputs : solve_complaint(s, no)
    \/ \E q \in ListOrders : officer_complaints(s, q)

\* a status becomes Solved only in the commit of a request of an officer's
\* session
SolvedByOfficerOnly ==
    \A i \in 1..Len(complaints) :
        (complaints[i].status # Solved /\ complaints'[i].status = Solved)
            => \E s \in Sessions :
                    IsOfficer(s) /\ pc[s] = "solve_commit" /\ pc'[s] = "idle"

\* C13: a role-restricted operation from a session without that role's
\* identity changes no table, sends no e-mail and redirects to the role's
\* login page with a warning (File, Status lookup, citizen dashboard for a
\* citizen; Officer list, Resolve, officer dashboard for an officer); no
\* status becomes Solved through a request of a session without an officer
\* identity.
C13_GuardRefuses ==
    [][/\ HasCitizen("s1") \/ Refused("s1", "login") \/ ~CitizenOps("s1")
       /\ IsOfficer("s1") \/ Refused("s1", "officer_login") \/ ~OfficerOps("s1")
       /\ SolvedByOfficerOnly]_vars

\* a logged-in citizen's Resolve of a pending complaint was turned away
C13_Witness ==
    /\ HasCitizen("s1") /\ ~IsOfficer("s1")
    /\ complaints # <<>>
    /\ complaints[1].status = Pending
    /\ resp.endpoint = "solve_complaint"
    /\ resp.arg = complaints[1].complaint_no
    /\ resp.target = "officer_login"
    /\ mails = EmptyBag

\* the identity a session holds in each role (<<>>: none)
CitizenIdentity(d) ==
    IF "citizen_id" \in DOMAIN d
    THEN <<d["citizen_id"], d["citizen_name"], d["citizen_aadhar"]>> ELSE <<>>

OfficerIdentity(d) ==
    IF "officer_id" \in DOMAIN d THEN <<d["officer_id"], d["officer_name"]>> ELSE <<>>

\* the password pw verifies against the stored hash
Verifies(hash, pw) == hash = <<"bcrypt", pw>>

\* the rows whose stored e-mail is the submitted e-mail as typed, resp. the
\* submitted e-mail trimmed and lower-cased, and whose hash verifies
MatchesAsTyped(table, e, p) ==
    { i \in 1..Len(table) : table[i].email = e /\ Verifies(table[i].password, p) }

MatchesNormalised(table, e, p) ==
    { i \in 1..Len(table) :
        table[i].email = Lower(Strip(e)) /\ Verifies(table[i].password, p) }

\* Match is one of the two above.  A login step with a match gives the
\* session that row's identity, one without leaves session and store alone;
\* an identity appears in a session only by a login step with a match.
LoginContract(s, Match(_, _, _)) ==
    /\ \A c \in LoginPairs :
         /\ \/ ~login(s, c[1], c[2])
            \/ /\ store' = store
               /\ IF Match(citizens, c[1], c[2]) = {}
                  THEN session' = session
                  ELSE \E i \in Match(citizens, c[1], c[2]) :
                         CitizenIdentity(session'[s]) =
                            <<citizens[i].id, citizens[i].name, citizens[i].aadhar_number>>
         /\ \/ ~officer_login(s, c[1], c[2])
            \/ /\ store' = store
               /\ IF Match(Officers, c[1], c[2]) = {}
                  THEN session' = session
                  ELSE \E i \in Match(Officers, c[1], c[2]) :
                         OfficerIdentity(session'[s]) = <<Officers[i].id, Officers[i].name>>
    /\ \/ CitizenIdentity(session'[s]) \in { <<>>, CitizenIdentity(session[s]) }
       \/ \E c \in LoginPairs :
            login(s, c[1], c[2]) /\ Match(citizens, c[1], c[2]) # {}
    /\ \/ OfficerIdentity(session'[s]) \in { <<>>, OfficerIdentity(session[s]) }
       \/ \E c \in LoginPairs :
            officer_login(s, c[1], c[2]) /\ Match(Officers, c[1], c[2]) # {}

\* C14, as stated: a session comes to hold a citizen's (an officer's)
\* identity only through a login whose e-mail equals the stored e-mail and
\* whose password verifies against the stored hash; any other login leaves
\* the session and the store unchanged.
C14_LoginAsTyped == [][\A s \in Sessions : LoginContract(s, MatchesAsTyped)]_vars

\* C14: a session comes to hold a citizen's (an officer's) identity only
\* through a login whose e-mail, trimmed and lower-cased, equals the stored
\* e-mail and whose password verifies against the stored hash; any other
\* login leaves the session and the store unchanged.
C14_LoginNormalised == [][\A s \in Sessions : LoginContract(s, MatchesNormalised)]_vars

\* one client is logged in as the first citizen, the other as the officer,
\* and the latest login was turned down
C14_Witness ==
    /\ CitizenIdentity(session["s1"]) = <<1, <<"A">>, Aadhar1>>
    /\ OfficerIdentity(session["s2"]) = <<1, "Omar">>
    /\ resp.endpoint = "login"
    /\ HasFlash(resp, "danger")

NoIdentity(s) == ~("citizen_id" \in DOMAIN session[s]) /\ ~IsOfficer(s)

\* C15: after either logout, whatever the session held, it holds no citizen
\* and no officer identity; a session without identity stays without one
\* until a login succeeds, and until then every role-restricted operation
\* from it is refused.
C15_LogoutClears ==
    [][/\ (logout("s1") \/ officer_logout("s1")) => NoIdentity("s1")'
       /\ NoIdentity("s1") =>
            /\ \/ NoIdentity("s1")'
               \/ \E c \in LoginPairs :
                    \/ login("s1", c[1], c[2]) /\ MatchesNormalised(citizens, c[1], c[2]) # {}
                    \/ officer_login("s1", c[1], c[2])
                          /\ MatchesNormalised(Officers, c[1], c[2]) # {}
            /\ Refused("s1", "login") \/ ~CitizenOps("s1")
            /\ Refused("s1", "officer_login") \/ ~OfficerOps("s1")]_vars

\* the client filed a complaint, logged out, and its next File request was
\* turned away
C15_Witness ==
    /\ complaints # <<>>
    /\ session["s1"] = EmptyDict
    /\ resp.endpoint = "file_complaint"
    /\ resp.target = "login"

\* C16: a session never holds a citizen identity and an officer identity
\* at the same time.
C16_OneRolePerSession ==
    \A s \in Sessions : ~("citizen_id" \in DOMAIN session[s] /\ IsOfficer(s))

\* ---- Officer list ----
\* the rows of a listing: every complaint of the table once, with the
\* table's values, each complaint with one citizen of its Aadhar number,
\* no row created later than a row before it
ListsAll(rows) ==
    /\ Len(rows) = Len(complaints)
    /\ \A i \in 1..Len(complaints) :
         /\ Cardinality({ k \in 1..Len(rows) :
                            rows[k].complaint_no = complaints[i].complaint_no }) = 1
         /\ \E k \in 1..Len(rows) :
                \A col \in DOMAIN rows[k] : rows[k][col] = complaints[i][col]
         /\ Cardinality({ j \in 1..Len(citizens) :
                            citizens[j].aadhar_number = complaints[i].citizen_aadhar }) = 1
    /\ \A a, b \in 1..Len(rows) : a < b => rows[a].date_created >= rows[b].date_created

Listed ==
    /\ resp'.n # resp.n
    /\ resp'.endpoint = "officer_complaints"
    /\ resp'.kind = "render"
    /\ ListsAll(resp'.body)

\* C17: the Officer list requested by an authenticated officer holds every
\* persisted complaint exactly once, joined to the citizen whose Aadhar
\* number is the complaint's citizen_aadhar, most recently created first.
C17_ListAllNewestFirst ==
    [][\A s \in Sessions :
          \/ ~IsOfficer(s)
          \/ Listed
          \/ ~\E q \in ListOrders : officer_complaints(s, q)]_vars

\* a listing of two complaints of two citizens, the one inserted second
\* created later and listed first
C17_Witness ==
    /\ resp.endpoint = "officer_complaints"
    /\ Len(resp.body) = 2
    /\ Len(complaints) = 2
    /\ complaints[1].citizen_aadhar # complaints[2].citizen_aadhar
    /\ resp.body[1].complaint_no = complaints[2].complaint_no
    /\ resp.body[1].date_created > resp.body[2].date_created

\* ---- Status lookup ----
\* the two fields of a lookup form as typed, resp. trimmed
AsTyped(f) ==
    [aadhar_no |-> Get(f, "aadhar_no", <<>>), complaint_no |-> Get(f, "complaint_no", <<>>)]

Trimmed(f) ==
    [aadhar_no |-> Strip(AsTyped(f).aadhar_no),
     complaint_no |-> Strip(AsTyped(f).complaint_no)]

\* the complaints with the number and the Aadhar number of pair
ComplaintsOfPair(pair) ==
    { i \in 1..Len(complaints) :
        /\ complaints[i].complaint_no = pair.complaint_no
        /\ complaints[i].citizen_aadhar = pair.aadhar_no }

\* the answer of a lookup
ShowsComplaint(i) ==
    /\ resp'.kind = "render"
    /\ resp'.target = "complaint_status.html"
    /\ resp'.body = <<complaints[i]>>

ErrorAnswer(message) ==
    /\ resp'.kind = "redirect"
    /\ resp'.body = <<>>
    /\ resp'.flashes = <<Flash("danger", message)>>

\* a lookup step changes neither the store nor a session
LookupReadsOnly == store' = store /\ session' = session /\ pc' = pc

\* C18, as stated: a Status lookup by an authenticated citizen returns the
\* persisted complaint whose complaint_no and citizen_aadhar equal the
\* submitted pair when there is one, whoever's Aadhar number is submitted,
\* and a not-found error otherwise; it never changes persisted state.
C18_LookupAsTyped ==
    [][\A f \in StatusForms :
          \/ ~HasCitizen("s2")
          \/ ~complaint_status("s2", "POST", f)
          \/ /\ LookupReadsOnly
             /\ IF ComplaintsOfPair(AsTyped(f)) = {}
                THEN ErrorAnswer("Complaint not found.")
                ELSE \E i \in ComplaintsOfPair(AsTyped(f)) : ShowsComplaint(i)]_vars

\* C18: a Status lookup by an authenticated citizen trims both fields; with
\* a field empty after trimming it answers that both fields are required,
\* else it returns the persisted complaint whose complaint_no and
\* citizen_aadhar equal the trimmed pair when there is one, whoever's Aadhar
\* number is submitted, and a not-found error otherwise; it never changes
\* persisted state.
C18_LookupTrimmed ==
    [][\A f \in StatusForms :
          \/ ~HasCitizen("s2")
          \/ ~complaint_status("s2", "POST", f)
          \/ /\ LookupReadsOnly
             /\ IF Trimmed(f).aadhar_no = <<>> \/ Trimmed(f).complaint_no = <<>>
                THEN ErrorAnswer("Both fields are required.")
                ELSE IF ComplaintsOfPair(Trimmed(f)) = {}
                THEN ErrorAnswer("Complaint not found.")
                ELSE \E i \in ComplaintsOfPair(Trimmed(f)) : ShowsComplaint(i)]_vars

\* the second citizen was shown a complaint of the first
C18_Witness ==
    /\ Get(session["s2"], "citizen_aadhar", <<>>) = Aadhar2
    /\ resp.sid = "s2"
    /\ resp.endpoint = "complaint_status"
    /\ resp.kind = "render"
    /\ resp.body # <<>>
    /\ resp.body[1].citizen_aadhar = Aadhar1

\* ---- generator ----
\* every value the generator can draw is the number of a persisted complaint
AllUsed == \A n \in GenRange : Persisted(FormatInt(n))

\* the generator of the request of client s returns in this step
Returns(s) == pc[s] = "generate" /\ pc'[s] # "generate"

\* what it returns: six digits, a number of the range, of no complaint of
\* the table it was checked against
ReturnsFresh(s) ==
    LET num == req'[s].new_complaint.complaint_no
    IN  /\ pc'[s] = "insert"
        /\ Len(num) = 6
        /\ \A i \in 1..Len(num) : IsDigit(num[i])
        /\ \E n \in MinComplaintNo..(MinComplaintNo + NumRange) :
                n <= MaxComplaintNo /\ FormatInt(n) = num
        /\ ~Persisted(num)

\* the request of client s is not answered in this step
NoAnswer(s) == resp' = resp \/ resp'.sid # s

ResolutionMails(no) ==
    { m \in BagToSet(mails) : m.subject = SolveSubject /\ m.complaint_no = no }

\* C20: for each complaint at most one resolution e-mail is ever attempted,
\* also when two Resolve requests for it interleave.
C20_OneResolutionMail ==
    \A i \in 1..Len(complaints) :
        \A m1, m2 \in ResolutionMails(complaints[i].complaint_no) :
            m1 = m2 /\ CopiesIn(m1, mails) = 1

====
